---- MODULE Spec2Model ----
(***************************************************************************)
(* Content-defined chunking (rust-hashsplit): the rolling-hash engine, the *)
(* boundary detector and the chunk materializers of src/iter.rs, driven    *)
(* over a finite byte input, with the hashers of src/algorithms and the    *)
(* batched RRS update of src/rrs.rs.                                       *)
(*                                                                         *)
(* A u32 is the pair <<hi, lo>> of its 16-bit halves, so that 32-bit       *)
(* wraparound is computed exactly.  An arithmetic step also reports        *)
(* whether it overflowed: a build with overflow checks panics there, a     *)
(* build without them wraps.                                               *)
(***************************************************************************)
EXTENDS Integers, Sequences, FiniteSets, TLC

\* ---------------------------------------------------------------- bounds
MaxLen == 3          \* longest input
MaxByte == 1         \* input bytes are 0..MaxByte
MaxThreshold == 1    \* THRESHOLD is 0..MaxThreshold
MaxMinSize == 2      \* MIN_SIZE is 0..MaxMinSize
MaxMaxSize == 3      \* MAX_SIZE is 0..MaxMaxSize
MaxExtraPolls == 2   \* polls of an exhausted iterator
WINDOW_SIZE == 2     \* width of the ring buffer

\* ------------------------------------------------------------- options
None == [tag |-> "None"]
Some(v) == [tag |-> "Some", val |-> v]

\* ------------------------------------------------------- u32 arithmetic
\* A computed u32 is [val |-> <<hi, lo>>, ov |-> whether an operation on the way
\* to it left the u32 range].
Half == 65536

Val(v) == [val |-> v, ov |-> FALSE]

Lit(n) == Val(<<n \div Half, n % Half>>)

\* x + y
Add32(x, y) ==
    LET lo == x.val[2] + y.val[2]
        hi == x.val[1] + y.val[1] + (lo \div Half)
    IN  [val |-> <<hi % Half, lo % Half>>, ov |-> x.ov \/ y.ov \/ hi >= Half]

\* x - y
Sub32(x, y) ==
    LET lo == x.val[2] - y.val[2]
        hi == x.val[1] - y.val[1] - (IF lo < 0 THEN 1 ELSE 0)
    IN  [val |-> <<(hi + Half) % Half, (lo + Half) % Half>>,
         ov |-> x.ov \/ y.ov \/ hi < 0]

\* product of two 16-bit numbers as <<hi, lo>>, through 8-bit digits
Mul16(a, b) ==
    LET t == ((a \div 256) * (b % 256) + (a % 256) * (b \div 256)) * 256
             + (a % 256) * (b % 256)
    IN  <<(a \div 256) * (b \div 256) + (t \div Half), t % Half>>

Mul32_sum(hi, lo, ov) == [val |-> <<hi % Half, lo>>, ov |-> ov \/ hi >= Half]

Mul32_parts(ll, hl, lh, ov) ==
    Mul32_sum(ll[1] + hl[2] + lh[2], ll[2], ov \/ hl[1] # 0 \/ lh[1] # 0)

\* x * y
Mul32(x, y) ==
    Mul32_parts(Mul16(x.val[2], y.val[2]),
                Mul16(x.val[1], y.val[2]),
                Mul16(x.val[2], y.val[1]),
                x.ov \/ y.ov \/ (x.val[1] # 0 /\ y.val[1] # 0))

\* x % m for 0 < m <= 2^16 (the remainder itself never overflows)
Mod32(x, m) ==
    [val |-> <<0, (((x.val[1] % m) * (Half % m)) + x.val[2]) % m>>, ov |-> x.ov]

\* x << 16 (the bits shifted out are dropped, without any check)
Shl16(x) == [val |-> <<x.val[2], 0>>, ov |-> x.ov]

RECURSIVE tz16(_)
tz16(n) == IF n % 2 = 1 THEN 0 ELSE 1 + tz16(n \div 2)

\* u32::trailing_zeros
trailing_zeros(v) ==
    IF v[2] # 0 THEN tz16(v[2])
    ELSE IF v[1] # 0 THEN 16 + tz16(v[1])
    ELSE 32

\* Leveled for u32
level(sum) == trailing_zeros(sum)

\* ------------------------------------------------------------- program
VARIABLES
    input,            \* the bytes of the source
    hasher,           \* the Hash type parameter: "Rrs1" or "Bozo32"
    THRESHOLD,        \* const generic parameters of Delimited / Distances
    MIN_SIZE,
    MAX_SIZE,
    overflow_checks,  \* the build: TRUE panics on overflow, FALSE wraps
    panicked,         \* a panic has aborted the program
    delimited,        \* a Delimited polled directly
    events,           \* what it has yielded so far
    delimitedNones,   \* how many of its polls returned None
    splits,           \* a Splits over its own Delimited
    chunks,           \* the ResumableChunks it has yielded
    splitsNones,
    distances,        \* a Distances polled directly
    extents,          \* the Extents it has yielded
    distancesNones,
    spans,            \* a Spans over its own Distances
    spanChunks,       \* the ResumableChunks it has yielded
    spansNones,
    batch,            \* the arguments of a batched update: hasher, state, blocks
    sliceOut,         \* what process_slice returned for them
    chunkOut,         \* what process_chunk128 returned for them
    call,             \* a call of a function of the library: its name and arguments
    ret               \* what the call returned

vars == <<input, hasher, THRESHOLD, MIN_SIZE, MAX_SIZE, overflow_checks, panicked,
          delimited, events, delimitedNones, splits, chunks, splitsNones,
          distances, extents, distancesNones, spans, spanChunks, spansNones,
          batch, sliceOut, chunkOut, call, ret>>

config == <<input, hasher, THRESHOLD, MIN_SIZE, MAX_SIZE, overflow_checks,
            batch, sliceOut, chunkOut, call, ret>>

\* ------------------------------------------------------------- hashers
\* A hash step answers [sum, state, overflow]: the checksum, the next state, and
\* whether the arithmetic overflowed on the way.
MODULUS == 25536
OFFSET == 31
PRIME == 65521

Rrs_result(sum, a_new, b_new) ==
    [sum |-> sum.val, state |-> <<a_new.val, b_new.val>>, overflow |-> sum.ov]

Rrs_sum(a_new, b_new) == Rrs_result(Add32(b_new, Shl16(a_new)), a_new, b_new)

Rrs_b_new(b, old_byte, a_new) ==
    Rrs_sum(a_new,
            Mod32(Add32(Sub32(Val(b),
                              Mul32(Lit(WINDOW_SIZE), Add32(Lit(old_byte), Lit(OFFSET)))),
                        a_new),
                  MODULUS))

\* algorithms/rrs.rs: Rrs<MODULUS, OFFSET>, instantiated as Rrs1
Rrs_process_byte_freestanding(state, old_byte, new_byte) ==
    Rrs_b_new(state[2], old_byte,
              Mod32(Add32(Sub32(Val(state[1]), Lit(old_byte)), Lit(new_byte)), MODULUS))

RECURSIVE PrimePowLoop(_, _)
PrimePowLoop(i, pow) ==
    IF i < WINDOW_SIZE THEN PrimePowLoop(i + 1, Mul32(Val(pow), Lit(PRIME)).val) ELSE pow

PRIME_POW == PrimePowLoop(0, <<0, 1>>)

Bozo32_result(sum) == [sum |-> sum.val, state |-> sum.val, overflow |-> sum.ov]

\* a faulty step: the byte leaving the window is never subtracted
Bozo32_process_byte_no_evict(state, old_byte, new_byte) ==
    Bozo32_result(Add32(Mul32(Val(state), Lit(PRIME)), Lit(new_byte)))

\* algorithms/bozo32.rs
Bozo32_process_byte_freestanding(state, old_byte, new_byte) ==
    Bozo32_result(Sub32(Add32(Mul32(Val(state), Lit(PRIME)), Lit(new_byte)),
                        Mul32(Lit(old_byte), Val(PRIME_POW))))

INITIAL_STATE(h) == IF h = "Rrs1" THEN <<(<<0, 0>>), (<<0, 0>>)>> ELSE <<0, 0>>

process_byte(h, state, old_byte, new_byte) ==
    IF h = "Rrs1"
    THEN Rrs_process_byte_freestanding(state, old_byte, new_byte)
    ELSE Bozo32_process_byte_freestanding(state, old_byte, new_byte)

\* ------------------------------------------------------ rolling engine
\* An iterator over bytes is the sequence of the bytes it has yet to yield.
Rolling_start(source) ==
    [state |-> INITIAL_STATE(hasher),
     begin |-> 0,
     ring |-> [i \in 1..WINDOW_SIZE |-> 0],
     source |-> source]

\* a faulty feed: the cursor runs on past the end of the ring's first lap
\* and is only brought back one slot late
Rolling_feed_store_late_wrap(self, byte, r) ==
    [self |-> [self EXCEPT !.state = r.state,
                           !.ring[self.begin + 1] = byte,
                           !.begin = IF self.begin + 2 >= WINDOW_SIZE
                                     THEN 0 ELSE self.begin + 1],
     sum |-> r.sum,
     panic |-> overflow_checks /\ r.overflow]

\* a faulty feed: the ring is never written, so the byte evicted is always 0
Rolling_feed_store_no_ring(self, byte, r) ==
    [self |-> [self EXCEPT !.state = r.state,
                           !.begin = IF self.begin + 1 = WINDOW_SIZE
                                     THEN 0 ELSE self.begin + 1],
     sum |-> r.sum,
     panic |-> overflow_checks /\ r.overflow]

\* Rolling::feed after the hash step r: store the state and the byte, advance
\* the cursor
Rolling_feed_store(self, byte, r) ==
    [self |-> [self EXCEPT !.state = r.state,
                           !.ring[self.begin + 1] = byte,
                           !.begin = IF self.begin + 1 = WINDOW_SIZE
                                     THEN 0 ELSE self.begin + 1],
     sum |-> r.sum,
     panic |-> overflow_checks /\ r.overflow]

\* Rolling::feed: the engine after the byte, the checksum, and whether the
\* hash step panicked (an overflow in a build that checks for it)
Rolling_feed(self, byte) ==
    Rolling_feed_store(self, byte,
        process_byte(hasher, self.state, self.ring[self.begin + 1], byte))

Rolling_item(f) == [self |-> f.self, item |-> Some(f.sum), panic |-> f.panic]

\* Iterator for Rolling: Some(checksum) or None
Rolling_next(self) ==
    IF self.source = <<>>
    THEN [self |-> self, item |-> None, panic |-> FALSE]
    ELSE Rolling_item(Rolling_feed([self EXCEPT !.source = Tail(self.source)],
                                   Head(self.source)))

WithRolling_item(byte, f) ==
    [self |-> f.self, item |-> Some(<<byte, f.sum>>), panic |-> f.panic]

\* Iterator for WithRolling: Some((byte, checksum)) or None
WithRolling_next(self) ==
    IF self.source = <<>>
    THEN [self |-> self, item |-> None, panic |-> FALSE]
    ELSE WithRolling_item(Head(self.source),
                          Rolling_feed([self EXCEPT !.source = Tail(self.source)],
                                       Head(self.source)))

\* ---------------------------------------------------- boundary detector
Data(byte) == [kind |-> "Data", byte |-> byte]
Level(lev, state) == [kind |-> "Level", level |-> lev, state |-> state]
Capped(state) == [kind |-> "Capped", state |-> state]
Eof(state) == [kind |-> "Eof", state |-> state]

Boundary_into_state(bd) == bd.state

Delimited_start(source) ==
    [prepared |-> None,
     counter |-> 0,
     halt |-> FALSE,
     input |-> Rolling_start(source)]

\* a faulty variant: yielding the pending boundary counts as a byte of the run
Delimited_yield_prepared_counted(self) ==
    [self |-> [self EXCEPT !.prepared = None, !.counter = self.counter + 1],
     item |-> Some(IF self.prepared.val[1] # None
                   THEN Level(self.prepared.val[1].val, self.prepared.val[2])
                   ELSE Capped(self.prepared.val[2])),
     panic |-> FALSE]

\* a faulty variant: the pending boundary is yielded but the slot is not cleared
Delimited_yield_prepared_kept(self) ==
    [self |-> self,
     item |-> Some(IF self.prepared.val[1] # None
                   THEN Level(self.prepared.val[1].val, self.prepared.val[2])
                   ELSE Capped(self.prepared.val[2])),
     panic |-> FALSE]

\* Delimited::next, a boundary is pending: yield it and clear the slot
Delimited_yield_prepared(self) ==
    LET may == self.prepared.val[1]
        state == self.prepared.val[2]
    IN  [self |-> [self EXCEPT !.prepared = None],
         item |-> Some(IF may # None THEN Level(may.val, state) ELSE Capped(state)),
         panic |-> FALSE]

\* a faulty variant: the cap is tested before the level
Delimited_on_byte_cap_first(self, input1, byte, sum) ==
    [self |->
        IF self.counter + 1 = MAX_SIZE
        THEN [self EXCEPT !.input = input1,
                          !.prepared = Some(<<None, input1.state>>),
                          !.counter = 0]
        ELSE IF level(sum) >= THRESHOLD /\ self.counter + 1 >= MIN_SIZE
        THEN [self EXCEPT !.input = input1,
                          !.prepared = Some(<<Some(level(sum)), input1.state>>),
                          !.counter = 0]
        ELSE [self EXCEPT !.input = input1, !.counter = self.counter + 1],
     item |-> Some(Data(byte)),
     panic |-> FALSE]

\* a faulty variant: a level boundary is staged without regard to MIN_SIZE
Delimited_on_byte_no_min(self, input1, byte, sum) ==
    [self |->
        IF level(sum) >= THRESHOLD
        THEN [self EXCEPT !.input = input1,
                          !.prepared = Some(<<Some(level(sum)), input1.state>>),
                          !.counter = 0]
        ELSE IF self.counter + 1 = MAX_SIZE
        THEN [self EXCEPT !.input = input1,
                          !.prepared = Some(<<None, input1.state>>),
                          !.counter = 0]
        ELSE [self EXCEPT !.input = input1, !.counter = self.counter + 1],
     item |-> Some(Data(byte)),
     panic |-> FALSE]

\* a faulty variant: the counter is not reset when a Capped boundary is staged
Delimited_on_byte_no_reset(self, input1, byte, sum) ==
    [self |->
        IF level(sum) >= THRESHOLD /\ self.counter + 1 >= MIN_SIZE
        THEN [self EXCEPT !.input = input1,
                          !.prepared = Some(<<Some(level(sum)), input1.state>>),
                          !.counter = 0]
        ELSE IF self.counter + 1 = MAX_SIZE
        THEN [self EXCEPT !.input = input1,
                          !.prepared = Some(<<None, input1.state>>),
                          !.counter = self.counter + 1]
        ELSE [self EXCEPT !.input = input1, !.counter = self.counter + 1],
     item |-> Some(Data(byte)),
     panic |-> FALSE]

\* Delimited::next, a byte was pulled: count it, stage a boundary, yield Data
Delimited_on_byte(self, input1, byte, sum) ==
    LET counter1 == self.counter + 1
        lev == level(sum)
    IN  [self |->
            IF lev >= THRESHOLD /\ counter1 >= MIN_SIZE
            THEN [self EXCEPT !.input = input1,
                              !.prepared = Some(<<Some(lev), input1.state>>),
                              !.counter = 0]
            ELSE IF counter1 = MAX_SIZE
            THEN [self EXCEPT !.input = input1,
                              !.prepared = Some(<<None, input1.state>>),
                              !.counter = 0]
            ELSE [self EXCEPT !.input = input1, !.counter = counter1],
         item |-> Some(Data(byte)),
         panic |-> FALSE]

\* a faulty variant: Eof is yielded but the detector does not halt
Delimited_on_end_no_halt(self) ==
    [self |-> self,
     item |-> Some(Eof(self.input.state)),
     panic |-> FALSE]

\* Delimited::next, the source is exhausted: halt and yield Eof
Delimited_on_end(self) ==
    [self |-> [self EXCEPT !.halt = TRUE],
     item |-> Some(Eof(self.input.state)),
     panic |-> FALSE]

\* Delimited::next, nothing pending: n is what the rolling engine answered
Delimited_pull(self, n) ==
    IF n.panic THEN [self |-> self, item |-> None, panic |-> TRUE]
    ELSE IF n.item # None
    THEN Delimited_on_byte(self, n.self, n.item.val[1], n.item.val[2])
    ELSE Delimited_on_end(self)

\* a faulty variant: the next byte is pulled over a pending boundary
Delimited_next_pull_first(self) ==
    IF self.halt THEN [self |-> self, item |-> None, panic |-> FALSE]
    ELSE Delimited_pull(self, WithRolling_next(self.input))

\* Iterator for Delimited
Delimited_next(self) ==
    IF self.halt THEN [self |-> self, item |-> None, panic |-> FALSE]
    ELSE IF self.prepared # None THEN Delimited_yield_prepared(self)
    ELSE Delimited_pull(self, WithRolling_next(self.input))

\* ------------------------------------------------------ owned chunks
ResumableChunk_new(data, state) == [chunk |-> data, state |-> state]

Delimited_splits(self) ==
    [reserve |-> 2 * MIN_SIZE, preparing |-> None, source |-> self]

\* Splits::next, a Data event: push the byte, allocating on first use
Splits_on_data(self, byte) ==
    [self EXCEPT !.preparing =
        Some(Append(IF self.preparing = None THEN <<>> ELSE self.preparing.val, byte))]

\* a faulty variant: the prepared bytes are yielded but not taken
Splits_on_boundary_kept(self, bd) ==
    [self |-> self,
     item |-> IF self.preparing = None
              THEN None
              ELSE Some(ResumableChunk_new(self.preparing.val, Boundary_into_state(bd))),
     panic |-> FALSE]

\* Splits::next, a Boundary event: take what was prepared, if anything
Splits_on_boundary(self, bd) ==
    [self |-> [self EXCEPT !.preparing = None],
     item |-> IF self.preparing = None
              THEN None
              ELSE Some(ResumableChunk_new(self.preparing.val, Boundary_into_state(bd))),
     panic |-> FALSE]

RECURSIVE Splits_next(_)

\* Splits::next, one turn of its loop: n is what the source answered
Splits_on_event(self, n) ==
    IF n.panic THEN [self |-> self, item |-> None, panic |-> TRUE]
    ELSE IF n.item = None
    THEN [self |-> [self EXCEPT !.source = n.self], item |-> None, panic |-> FALSE]
    ELSE IF n.item.val.kind = "Data"
    THEN Splits_next(Splits_on_data([self EXCEPT !.source = n.self], n.item.val.byte))
    ELSE Splits_on_boundary([self EXCEPT !.source = n.self], n.item.val)

\* Iterator for Splits
Splits_next(self) == Splits_on_event(self, Delimited_next(self.source))

\* ------------------------------------------------------------ extents
Distances_start(source) ==
    [counter |-> 0, halt |-> FALSE, input |-> Rolling_start(source)]

\* Distances::yield_extent: the counter is taken (and zeroed) first; a zero
\* length yields nothing
Distances_yield_extent(self, boundary) ==
    [self |-> [self EXCEPT !.counter = 0],
     item |-> IF self.counter = 0
              THEN None
              ELSE Some([length |-> self.counter, boundary |-> boundary]),
     panic |-> FALSE]

RECURSIVE Distances_next(_)

\* a faulty variant: a run of exactly MIN_SIZE bytes is not cut at a level
Distances_on_sum_above_min(self, lev) ==
    IF lev >= THRESHOLD /\ self.counter > MIN_SIZE
    THEN Distances_yield_extent(self, Level(lev, self.input.state))
    ELSE IF self.counter = MAX_SIZE
    THEN Distances_yield_extent(self, Capped(self.input.state))
    ELSE Distances_next(self)

\* Distances::next, a checksum was pulled and counted: cut here or go on
Distances_on_sum(self, lev) ==
    IF lev >= THRESHOLD /\ self.counter >= MIN_SIZE
    THEN Distances_yield_extent(self, Level(lev, self.input.state))
    ELSE IF self.counter = MAX_SIZE
    THEN Distances_yield_extent(self, Capped(self.input.state))
    ELSE Distances_next(self)

\* Distances::next, one turn of its loop: n is what the rolling engine answered
Distances_pull(self, n) ==
    IF n.panic THEN [self |-> self, item |-> None, panic |-> TRUE]
    ELSE IF n.item # None
    THEN Distances_on_sum([self EXCEPT !.input = n.self, !.counter = @ + 1],
                          level(n.item.val))
    ELSE Distances_yield_extent([self EXCEPT !.halt = TRUE], Eof(self.input.state))

\* Iterator for Distances
Distances_next(self) ==
    IF self.halt THEN [self |-> self, item |-> None, panic |-> FALSE]
    ELSE Distances_pull(self, Rolling_next(self.input))

\* ----------------------------------------------------- borrowed chunks
Spans_start(data) == [saved |-> data, distances |-> Distances_start(data)]

\* the closure of Spans::next: cut the extent's length off the front of saved
Spans_cut(self, extent) ==
    [self |-> [self EXCEPT !.saved = SubSeq(self.saved, extent.length + 1, Len(self.saved))],
     item |-> Some(ResumableChunk_new(SubSeq(self.saved, 1, extent.length),
                                      Boundary_into_state(extent.boundary))),
     panic |-> FALSE]

Spans_map(self, n) ==
    IF n.panic THEN [self |-> self, item |-> None, panic |-> TRUE]
    ELSE IF n.item = None
    THEN [self |-> [self EXCEPT !.distances = n.self], item |-> None, panic |-> FALSE]
    ELSE Spans_cut([self EXCEPT !.distances = n.self], n.item.val)

\* Iterator for Spans
Spans_next(self) == Spans_map(self, Distances_next(self.distances))

\* ------------------------------------------------------------ behaviour
Inputs == UNION {[1..n -> 0..MaxByte] : n \in 0..MaxLen}

Init ==
    /\ input \in Inputs
    /\ hasher \in {"Rrs1", "Bozo32"}
    /\ THRESHOLD \in 0..MaxThreshold
    /\ MIN_SIZE \in 0..MaxMinSize
    /\ MAX_SIZE \in 0..MaxMaxSize
    /\ overflow_checks \in BOOLEAN
    /\ panicked = FALSE
    /\ delimited = Delimited_start(input)
    /\ events = <<>>
    /\ delimitedNones = 0
    /\ splits = Delimited_splits(Delimited_start(input))
    /\ chunks = <<>>
    /\ splitsNones = 0
    /\ distances = Distances_start(input)
    /\ extents = <<>>
    /\ distancesNones = 0
    /\ spans = Spans_start(input)
    /\ spanChunks = <<>>
    /\ spansNones = 0
    /\ batch = None
    /\ sliceOut = None
    /\ chunkOut = None
    /\ call = None
    /\ ret = None

Yield(log, item) == IF item = None THEN log ELSE Append(log, item.val)
Count(n, item) == IF item = None THEN n + 1 ELSE n

\* The caller polls the four iterators one after the other, each one until it
\* has answered None MaxExtraPolls times.  A panic aborts the program.
DelimitedPoll ==
    /\ ~panicked
    /\ delimitedNones < MaxExtraPolls
    /\ LET r == Delimited_next(delimited)
       IN  IF r.panic
           THEN /\ panicked' = TRUE
                /\ UNCHANGED <<delimited, events, delimitedNones>>
           ELSE /\ delimited' = r.self
                /\ events' = Yield(events, r.item)
                /\ delimitedNones' = Count(delimitedNones, r.item)
                /\ UNCHANGED panicked
    /\ UNCHANGED <<config, splits, chunks, splitsNones, distances, extents,
                   distancesNones, spans, spanChunks, spansNones>>

SplitsPoll ==
    /\ ~panicked
    /\ delimitedNones = MaxExtraPolls
    /\ splitsNones < MaxExtraPolls
    /\ LET r == Splits_next(splits)
       IN  IF r.panic
           THEN /\ panicked' = TRUE
                /\ UNCHANGED <<splits, chunks, splitsNones>>
           ELSE /\ splits' = r.self
                /\ chunks' = Yield(chunks, r.item)
                /\ splitsNones' = Count(splitsNones, r.item)
                /\ UNCHANGED panicked
    /\ UNCHANGED <<config, delimited, events, delimitedNones, distances, extents,
                   distancesNones, spans, spanChunks, spansNones>>

DistancesPoll ==
    /\ ~panicked
    /\ splitsNones = MaxExtraPolls
    /\ distancesNones < MaxExtraPolls
    /\ LET r == Distances_next(distances)
       IN  IF r.panic
           THEN /\ panicked' = TRUE
                /\ UNCHANGED <<distances, extents, distancesNones>>
           ELSE /\ distances' = r.self
                /\ extents' = Yield(extents, r.item)
                /\ distancesNones' = Count(distancesNones, r.item)
                /\ UNCHANGED panicked
    /\ UNCHANGED <<config, delimited, events, delimitedNones, splits, chunks,
                   splitsNones, spans, spanChunks, spansNones>>

SpansPoll ==
    /\ ~panicked
    /\ distancesNones = MaxExtraPolls
    /\ spansNones < MaxExtraPolls
    /\ LET r == Spans_next(spans)
       IN  IF r.panic
           THEN /\ panicked' = TRUE
                /\ UNCHANGED <<spans, spanChunks, spansNones>>
           ELSE /\ spans' = r.self
                /\ spanChunks' = Yield(spanChunks, r.item)
                /\ spansNones' = Count(spansNones, r.item)
                /\ UNCHANGED panicked
    /\ UNCHANGED <<config, delimited, events, delimitedNones, splits, chunks,
                   splitsNones, distances, extents, distancesNones>>

Next == DelimitedPoll \/ SplitsPoll \/ DistancesPoll \/ SpansPoll

Spec == Init /\ [][Next]_vars

\* ------------------------------------------------------ batched update
\* rrs.rs: a Hasher is [modulus, offset, style, width]
Rrs_new(modulus, offset, style, width) ==
    [modulus |-> modulus, offset |-> offset, style |-> style, width |-> width]

rrs0(width) == Rrs_new(Half, 31, "Rrs0", width)
rrs1(width) == Rrs_new(Half, 31, "Rrs1", width)

\* the checksum of either style, with the state
Rrs_style(h, a_new, b_new) ==
    [sum |-> IF h.style = "Rrs0"
             THEN Add32(a_new, Shl16(b_new)).val
             ELSE Add32(b_new, Shl16(a_new)).val,
     state |-> <<a_new.val, b_new.val>>,
     overflow |-> a_new.ov \/ b_new.ov]

Rrs_b(h, b, old_byte, a_new) ==
    Rrs_style(h, a_new,
              Mod32(Add32(Sub32(Val(b),
                                Mul32(Lit(h.width), Add32(Lit(old_byte), Lit(h.offset)))),
                          a_new),
                    h.modulus))

\* rrs.rs: Hasher::process_byte
Rrs_process_byte(h, state, old_byte, new_byte) ==
    Rrs_b(h, state[2], old_byte,
          Mod32(Add32(Sub32(Val(state[1]), Lit(old_byte)), Lit(new_byte)), h.modulus))

\* lib.rs: the provided Hasher::process_slice, a fold over the zipped slices
\* from (Default::default(), state); a panicking step ends the fold
RECURSIVE process_slice_fold(_, _, _, _)
process_slice_fold(h, acc, old_data, new_data) ==
    IF (acc.overflow /\ overflow_checks) \/ old_data = <<>> \/ new_data = <<>> THEN acc
    ELSE process_slice_fold(h,
            [Rrs_process_byte(h, acc.state, Head(old_data), Head(new_data))
                EXCEPT !.overflow = @ \/ acc.overflow],
            Tail(old_data), Tail(new_data))

process_slice(h, state, old_data, new_data) ==
    process_slice_fold(h, [sum |-> <<0, 0>>, state |-> state, overflow |-> FALSE],
                       old_data, new_data)

\* SSE: a 128-bit register is the sequence of its lanes, lowest first
RECURSIVE SumAbs(_, _, _, _)
SumAbs(a, b, from, to) ==
    IF from > to THEN 0
    ELSE (IF a[from] >= b[from] THEN a[from] - b[from] ELSE b[from] - a[from])
         + SumAbs(a, b, from + 1, to)

mm_setzero_si128 == [i \in 1..16 |-> 0]

\* _mm_sad_epu8, read as four 32-bit lanes
mm_sad_epu8(a, b) == <<SumAbs(a, b, 1, 8), 0, SumAbs(a, b, 9, 16), 0>>

\* _mm_hadd_epi32 (the sums here stay far below 2^31)
mm_hadd_epi32(a, b) == <<a[1] + a[2], a[3] + a[4], b[1] + b[2], b[3] + b[4]>>

\* a register of zeros read as 32-bit or as 16-bit lanes
zeroed32 == <<0, 0, 0, 0>>
zeroed16 == <<0, 0, 0, 0, 0, 0, 0, 0>>

mm_extract_epi32(v, i) == v[i + 1]

\* _mm_set_epi8 takes the highest byte first
old_factors == [i \in 1..16 |-> 33 - i]
new_factors == [i \in 1..16 |-> 17 - i]

Sat16(n) == IF n > 32767 THEN 32767 ELSE n

\* _mm_maddubs_epi16: unsigned bytes times signed bytes, adjacent pairs added
\* with signed saturation (the factors here are positive)
mm_maddubs_epi16(a, b) ==
    [j \in 1..8 |-> Sat16(a[2 * j - 1] * b[2 * j - 1] + a[2 * j] * b[2 * j])]

\* _mm_hadd_epi16: adjacent 16-bit lanes added, wrapping
mm_hadd_epi16(a, b) ==
    [j \in 1..8 |-> IF j <= 4
                    THEN (a[2 * j - 1] + a[2 * j]) % Half
                    ELSE (b[2 * j - 9] + b[2 * j - 8]) % Half]

\* _mm_extract_epi16: the lane, zero-extended
mm_extract_epi16(v, i) == v[i + 1]

chunk128_a_new(h, a_prev, both_summed) ==
    Mod32(Add32(Sub32(Val(a_prev), Lit(mm_extract_epi32(both_summed, 0))),
                Lit(mm_extract_epi32(both_summed, 0))),
          h.modulus)

chunk128_b_new(h, a_prev, old_summed, both_stacked) ==
    Mod32(Add32(Sub32(Add32(Sub32(Sub32(Lit(0),
                                        Mul32(Mul32(Lit(16), Lit(h.width)), Lit(h.offset))),
                                  Mul32(Lit(h.width), Lit(old_summed))),
                            Mul32(Lit(16), Val(a_prev))),
                      Lit(mm_extract_epi16(both_stacked, 0))),
                Lit(mm_extract_epi16(both_stacked, 1))),
          h.modulus)

\* rrs.rs: Hasher::process_chunk128
process_chunk128(h, state, old_data, new_data) ==
    LET a_prev == state[1]
        both_summed ==
            mm_hadd_epi32(mm_hadd_epi32(mm_sad_epu8(old_data, mm_setzero_si128),
                                        mm_sad_epu8(new_data, mm_setzero_si128)),
                          zeroed32)
        both_stacked ==
            mm_hadd_epi16(
                mm_hadd_epi16(
                    mm_hadd_epi16(mm_maddubs_epi16(old_data, old_factors),
                                  mm_maddubs_epi16(new_data, new_factors)),
                    zeroed16),
                zeroed16)
    IN  Rrs_style(h,
                  chunk128_a_new(h, a_prev, both_summed),
                  chunk128_b_new(h, a_prev, mm_extract_epi32(both_summed, 0), both_stacked))

\* what a caller sees of a hash step: a panic where the build checks for
\* overflow and there was one, the checksum and state otherwise
Returned(r) ==
    IF overflow_checks /\ r.overflow
    THEN [panic |-> TRUE]
    ELSE [panic |-> FALSE, sum |-> r.sum, state |-> r.state]

BlockLen == 16
BlockBytes == {0, 1, 255}
BlockPositions == {1, 8, 16}
Blocks ==
    {[k \in 1..BlockLen |-> IF k = i THEN w ELSE v] :
        i \in BlockPositions, v \in BlockBytes, w \in BlockBytes}
BatchSums == {<<0, 0>>, <<0, 1>>, <<0, 65535>>}

BatchInit ==
    /\ batch \in [hasher : {rrs0(16), rrs1(16), rrs1(1)},
                  state : BatchSums \X BatchSums,
                  old_data : Blocks,
                  new_data : Blocks]
    /\ sliceOut = None
    /\ chunkOut = None
    /\ call = None
    /\ ret = None
    /\ overflow_checks \in BOOLEAN
    /\ input = <<>>
    /\ hasher = "Rrs1"
    /\ THRESHOLD = 0
    /\ MIN_SIZE = 0
    /\ MAX_SIZE = 0
    /\ panicked = FALSE
    /\ delimited = Delimited_start(input)
    /\ events = <<>>
    /\ delimitedNones = 0
    /\ splits = Delimited_splits(Delimited_start(input))
    /\ chunks = <<>>
    /\ splitsNones = 0
    /\ distances = Distances_start(input)
    /\ extents = <<>>
    /\ distancesNones = 0
    /\ spans = Spans_start(input)
    /\ spanChunks = <<>>
    /\ spansNones = 0

iterators == <<input, hasher, THRESHOLD, MIN_SIZE, MAX_SIZE, overflow_checks, panicked,
               delimited, events, delimitedNones, splits, chunks, splitsNones,
               distances, extents, distancesNones, spans, spanChunks, spansNones>>

ProcessSliceCall ==
    /\ sliceOut = None
    /\ sliceOut' = Some(Returned(process_slice(batch.hasher, batch.state,
                                               batch.old_data, batch.new_data)))
    /\ UNCHANGED <<iterators, batch, chunkOut, call, ret>>

ProcessChunk128Call ==
    /\ chunkOut = None
    /\ chunkOut' = Some(Returned(process_chunk128(batch.hasher, batch.state,
                                                  batch.old_data, batch.new_data)))
    /\ UNCHANGED <<iterators, batch, sliceOut, call, ret>>

BatchNext == ProcessSliceCall \/ ProcessChunk128Call

BatchSpec == BatchInit /\ [][BatchNext]_vars

\* ------------------------------------------------------ library calls
\* A call is [fn, ...arguments]; CallSpec makes one call and records what it
\* returned.

\* lib.rs: Leveled.  An integer checksum is [type, bits, limbs]: its width and
\* its 16-bit limbs, most significant first (an 8-bit integer is one limb
\* below 256); a boolean checksum is [type, val].
IntChecksum(bits, limbs) == [type |-> "int", bits |-> bits, limbs |-> limbs]
BoolChecksum(b) == [type |-> "bool", val |-> b]

\* {integer}::trailing_zeros
RECURSIVE int_trailing_zeros(_, _)
int_trailing_zeros(limbs, bits) ==
    IF limbs[Len(limbs)] # 0 THEN tz16(limbs[Len(limbs)])
    ELSE IF Len(limbs) = 1 THEN bits
    ELSE 16 + int_trailing_zeros(SubSeq(limbs, 1, Len(limbs) - 1), bits - 16)

\* implement_leveled_for_integer_primitive
Leveled_int(c) == int_trailing_zeros(c.limbs, c.bits)

\* a faulty variant: the boolean cast without the negation
Leveled_bool_cast(b) == IF b THEN 1 ELSE 0

\* impl Leveled for bool: !self as u32
Leveled_bool(b) == IF ~b THEN 1 ELSE 0

Leveled_level(c) == IF c.type = "bool" THEN Leveled_bool(c.val) ELSE Leveled_int(c)

LimbValues == {0, 1, 2, 12, 256, 32768, 65535}
WideChecksums ==
    {IntChecksum(16 * n, [i \in 1..n |-> IF i = k THEN v ELSE IF i < k THEN w ELSE 0]) :
        n \in {1, 2, 4, 8}, k \in 1..8, v \in LimbValues, w \in {0, 1}}
LevelChecksums ==
    {IntChecksum(8, <<n>>) : n \in 0..255}
        \cup WideChecksums
        \cup {BoolChecksum(b) : b \in BOOLEAN}

LevelCalls == {[fn |-> "level", checksum |-> c] : c \in LevelChecksums}

LevelCall ==
    /\ call # None
    /\ call.val.fn = "level"
    /\ ret = None
    /\ ret' = Some(Leveled_level(call.val.checksum))
    /\ UNCHANGED <<iterators, batch, sliceOut, chunkOut, call>>

\* iter.rs: a Rolling driven to the end of its source, the checksums collected
RECURSIVE Rolling_collect(_, _)

Rolling_collect_item(n, sums) ==
    IF n.panic THEN [panic |-> TRUE]
    ELSE IF n.item = None THEN [panic |-> FALSE, sums |-> sums, self |-> n.self]
    ELSE Rolling_collect(n.self, Append(sums, n.item.val))

Rolling_collect(self, sums) == Rolling_collect_item(Rolling_next(self), sums)

Rolling_sums(source) == Rolling_collect(Rolling_start(source), <<>>)

RollingCalls == {[fn |-> "rolling", a |-> a, b |-> b] : a \in Inputs, b \in Inputs}

\* two engines, each over its own input
RollingCall ==
    /\ call # None
    /\ call.val.fn = "rolling"
    /\ ret = None
    /\ ret' = Some([a |-> Rolling_sums(call.val.a), b |-> Rolling_sums(call.val.b)])
    /\ UNCHANGED <<iterators, batch, sliceOut, chunkOut, call>>

\* iter.rs: a Splits over a Delimited polled until it answers None, the chunks
\* collected
RECURSIVE Splits_collect(_, _)

Splits_collect_item(n, found) ==
    IF n.panic THEN [panic |-> TRUE]
    ELSE IF n.item = None THEN [panic |-> FALSE, chunks |-> found]
    ELSE Splits_collect(n.self, Append(found, n.item.val))

Splits_collect(self, found) == Splits_collect_item(Splits_next(self), found)

Splits_chunks(source) == Splits_collect(Delimited_splits(Delimited_start(source)), <<>>)

\* a sequence with the element at position p deleted
Delete(data, p) == SubSeq(data, 1, p - 1) \o SubSeq(data, p + 1, Len(data))

\* inputs long enough to hold a chunk past the window of an edit
LongInputs == [1..(WINDOW_SIZE + 2) -> 0..MaxByte]

\* the byte deleted is the first or the last: the two places that leave a
\* chunk of the input more than a window away from the edit
ChunkingCalls ==
    {[fn |-> "chunking", a |-> a, at |-> p, b |-> Delete(a, p)] :
        a \in LongInputs, p \in {1, WINDOW_SIZE + 2}}

\* the same configuration chunks an input and the input with one byte deleted
ChunkingCall ==
    /\ call # None
    /\ call.val.fn = "chunking"
    /\ ret = None
    /\ ret' = Some([a |-> Splits_chunks(call.val.a), b |-> Splits_chunks(call.val.b)])
    /\ UNCHANGED <<iterators, batch, sliceOut, chunkOut, call>>

\* the calls that run under a configuration of the detector, and the
\* thresholds they run under: one more than the polled iterators, so that a
\* threshold of two bits is among them
Configured(c) == c # None /\ c.val.fn \in {"chunking", "pieces"}

CallThresholds == 0..(MaxThreshold + 1)


\* the bytes a single hash step is called with
StepBytes == {0, MaxByte, 255}

\* the sources that bring an engine to a state: the inputs, and runs of the
\* largest byte
StepSources == Inputs \cup {[i \in 1..n |-> 255] : n \in 1..MaxLen}

StepCalls ==
    {[fn |-> "process_byte", source |-> s, old_byte |-> o, new_byte |-> n] :
        s \in StepSources, o \in StepBytes, n \in StepBytes}

\* Hasher::process_byte called on the state of an engine: the engine it was
\* called on, what it returned, and whether the step panicked
Step_result(engine, old_byte, new_byte, r) ==
    [panic |-> overflow_checks /\ r.overflow,
     overflow |-> r.overflow,
     engine |-> engine,
     old_byte |-> old_byte,
     new_byte |-> new_byte,
     sum |-> r.sum,
     state |-> r.state]

Step_from(fed, old_byte, new_byte) ==
    IF fed.panic THEN [panic |-> TRUE]
    ELSE Step_result(fed.self, old_byte, new_byte,
                     process_byte(hasher, fed.self.state, old_byte, new_byte))

\* a state is reached from INITIAL_STATE by a Rolling engine over a source,
\* and one more hash step is made from it
StepCall ==
    /\ call # None
    /\ call.val.fn = "process_byte"
    /\ ret = None
    /\ ret' = Some(Step_from(Rolling_sums(call.val.source),
                             call.val.old_byte, call.val.new_byte))
    /\ UNCHANGED <<iterators, batch, sliceOut, chunkOut, call>>




\* lib.rs: Hasher::process_slice called from the initial state on two slices
\* of any lengths, the new one of zeros
SliceCalls ==
    {[fn |-> "process_slice", old_data |-> o, new_data |-> [i \in 1..n |-> 0]] :
        o \in Inputs, n \in 0..MaxLen}

SliceCall ==
    /\ call # None
    /\ call.val.fn = "process_slice"
    /\ ret = None
    /\ ret' = Some(Returned(process_slice(rrs1(WINDOW_SIZE), <<(<<0, 0>>), (<<0, 0>>)>>,
                                          call.val.old_data, call.val.new_data)))
    /\ UNCHANGED <<iterators, batch, sliceOut, chunkOut, call>>

\* thin.rs: the block size of an implementor of Thinned
BLOCK_SIZE == 2

\* Iterator::zip: the pairs, as many as the shorter sequence has
Zip(a, b) ==
    [i \in 1..(IF Len(a) < Len(b) THEN Len(a) ELSE Len(b)) |-> <<a[i], b[i]>>]

\* the batched form over a sequence of (old, new) pairs: process_byte folded
\* over the pairs; a panicking step ends the fold
RECURSIVE process_sequence(_, _, _)
process_sequence(h, acc, pairs) ==
    IF (acc.overflow /\ overflow_checks) \/ pairs = <<>> THEN acc
    ELSE process_sequence(h,
            [Rrs_process_byte(h, acc.state, Head(pairs)[1], Head(pairs)[2])
                EXCEPT !.overflow = @ \/ acc.overflow],
            Tail(pairs))

\* thin.rs: the provided Thinned::process_block
Thinned_process_block(h, state, old_block, new_block) ==
    IF Len(old_block) # BLOCK_SIZE
    THEN [panic |-> TRUE]
    ELSE Returned(process_sequence(h,
                      [sum |-> <<0, 0>>, state |-> state, overflow |-> FALSE],
                      Zip(old_block, new_block)))

BlockCalls ==
    {[fn |-> "process_block", old_data |-> o, new_data |-> [i \in 1..n |-> 0]] :
        o \in Inputs, n \in 0..MaxLen}

BlockCall ==
    /\ call # None
    /\ call.val.fn = "process_block"
    /\ ret = None
    /\ ret' = Some(Thinned_process_block(rrs1(WINDOW_SIZE), <<(<<0, 0>>), (<<0, 0>>)>>,
                                         call.val.old_data, call.val.new_data))
    /\ UNCHANGED <<iterators, batch, sliceOut, chunkOut, call>>


\* Text is a sequence of characters. Display for an unsigned integer: its
\* decimal digits, most significant first
Digit(d) == <<"0", "1", "2", "3", "4", "5", "6", "7", "8", "9">>[d + 1]

RECURSIVE Decimal(_)
Decimal(n) == IF n < 10 THEN <<Digit(n)>> ELSE Decimal(n \div 10) \o <<Digit(n % 10)>>

\* a faulty Size: the smallest unit is tried first
Size_fmt_smallest_first(z) ==
    IF z % 1024 = 0 THEN Decimal(z \div 1024) \o <<"K", "i">>
    ELSE IF z % 1048576 = 0 THEN Decimal(z \div 1048576) \o <<"M", "i">>
    ELSE IF z % 1073741824 = 0 THEN Decimal(z \div 1073741824) \o <<"G", "i">>
    ELSE Decimal(z)

\* config.rs: Display for Size
Size_fmt(z) ==
    IF z % 1073741824 = 0 THEN Decimal(z \div 1073741824) \o <<"G", "i">>
    ELSE IF z % 1048576 = 0 THEN Decimal(z \div 1048576) \o <<"M", "i">>
    ELSE IF z % 1024 = 0 THEN Decimal(z \div 1024) \o <<"K", "i">>
    ELSE Decimal(z)

\* Named::NAME of the hashers
NAME(h) == IF h = "Rrs1" THEN <<"R", "R", "S", "1">> ELSE <<"B", "o", "z", "o", "3", "2">>

\* config.rs: Display for Config
Config_fmt(h, threshold, min_size, max_size) ==
    <<"H", "a", "s", "h", "S", "p", "l", "i", "t", "_">> \o Decimal(threshold)
        \o <<"_">> \o NAME(h)
        \o <<"_">> \o Size_fmt(min_size)
        \o <<"_">> \o Size_fmt(max_size)

\* the sizes and thresholds a Config is formatted with: the ones of the
\* crate's test, and small multiples of each unit with and without a rest
SizeValues ==
    {13, 65536, 2097152, 1073741824}
        \cup {m * u + r : m \in 0..MaxMaxSize, u \in {1, 1024, 1048576}, r \in {0, 1}}
        \cup {1073741824 + r : r \in {1, 1024, 1048576}}

FmtThresholds == {0, 13, 32}

\* x.to_string() for a Config x, with the rendering of its two sizes
FmtCall ==
    /\ call # None
    /\ call.val.fn = "fmt"
    /\ ret = None
    /\ ret' = Some([config |-> Config_fmt(hasher, THRESHOLD, MIN_SIZE, MAX_SIZE),
                    min_size |-> Size_fmt(MIN_SIZE),
                    max_size |-> Size_fmt(MAX_SIZE)])
    /\ UNCHANGED <<iterators, batch, sliceOut, chunkOut, call>>

NonZeroUsize_new(n) == IF n = 0 THEN None ELSE Some(n)

\* a faulty constructor: the width is taken without the test for zero
Rolling_with_buf_unchecked(h, buf, source) ==
    Some([hasher |-> h,
          state |-> INITIAL_STATE(h),
          width |-> Len(buf),
          begin |-> 0,
          ring |-> buf,
          source |-> source])

\* lib.rs: Rolling::with_buf; the ? returns None when the width is zero
Rolling_with_buf(h, buf, source) ==
    IF NonZeroUsize_new(Len(buf)) = None THEN None
    ELSE Some([hasher |-> h,
               state |-> INITIAL_STATE(h),
               width |-> NonZeroUsize_new(Len(buf)).val,
               begin |-> 0,
               ring |-> buf,
               source |-> source])

\* lib.rs: Rolling::default_with_buf, with the Default of the hasher type
Rolling_default_with_buf(buf, source) == Rolling_with_buf(hasher, buf, source)

WithBufCalls ==
    {[fn |-> f, buf |-> b, source |-> s] :
        f \in {"with_buf", "default_with_buf"},
        b \in Inputs,
        s \in {i \in Inputs : Len(i) <= 1}}

WithBufCall ==
    /\ call # None
    /\ call.val.fn \in {"with_buf", "default_with_buf"}
    /\ ret = None
    /\ ret' = Some(IF call.val.fn = "with_buf"
                   THEN Rolling_with_buf(hasher, call.val.buf, call.val.source)
                   ELSE Rolling_default_with_buf(call.val.buf, call.val.source))
    /\ UNCHANGED <<iterators, batch, sliceOut, chunkOut, call>>

\* lib.rs: Rolling::with_zeros, an engine that carries its hasher and width
Rolling_with_zeros(h, width, source) ==
    [hasher |-> h,
     state |-> INITIAL_STATE(h),
     width |-> width,
     begin |-> 0,
     ring |-> [i \in 1..width |-> 0],
     source |-> source]

\* lib.rs: Rolling::feed after the hash step r, the cursor wrapping at the
\* engine's own width
Rolling_feed_width(self, byte, r) ==
    [self |-> [self EXCEPT !.state = r.state,
                           !.ring[self.begin + 1] = byte,
                           !.begin = IF self.begin + 1 = self.width
                                     THEN 0 ELSE self.begin + 1],
     item |-> Some(<<byte, r.sum>>),
     panic |-> overflow_checks /\ r.overflow]

\* lib.rs: Iterator for Rolling, Some((byte, checksum)) or None; the hash
\* step is the hasher's, whose window is WINDOW_SIZE
Rolling_next_width(self) ==
    IF self.source = <<>>
    THEN [self |-> self, item |-> None, panic |-> FALSE]
    ELSE Rolling_feed_width([self EXCEPT !.source = Tail(self.source)],
                            Head(self.source),
                            process_byte(self.hasher, self.state,
                                         self.ring[self.begin + 1], Head(self.source)))

\* lib.rs: Event::Boundary, which carries the level only
Boundary(lev) == [kind |-> "Boundary", level |-> lev]

\* lib.rs: Rolling::delimited / Delimited::start
Rolling_delimited(self, threshold) ==
    [threshold |-> threshold, prepared |-> None, source |-> self]

\* lib.rs: the closure of Delimited::next, n is what the engine answered
Delimited_next_map(self, n) ==
    IF n.panic THEN [self |-> self, item |-> None, panic |-> TRUE]
    ELSE IF n.item = None
    THEN [self |-> [self EXCEPT !.source = n.self], item |-> None, panic |-> FALSE]
    ELSE [self |-> [self EXCEPT !.source = n.self,
                                !.prepared = IF level(n.item.val[2]) >= self.threshold
                                             THEN Some(level(n.item.val[2]))
                                             ELSE None],
          item |-> Some(Data(n.item.val[1])),
          panic |-> FALSE]

\* lib.rs: Iterator for the Delimited that stages on the threshold alone
Delimited_next_threshold(self) ==
    IF self.prepared # None
    THEN [self |-> [self EXCEPT !.prepared = None],
          item |-> Some(Boundary(self.prepared.val)),
          panic |-> FALSE]
    ELSE Delimited_next_map(self, Rolling_next_width(self.source))

\* lib.rs: Delimited::spans / Spans::start
Delimited_spans(self) ==
    [next_ix |-> 0, base_ix |-> 0, halt |-> FALSE, source |-> self]

\* an index range first..last, last exclusive
Range(first, last) == [start |-> first, end |-> last]

RECURSIVE Spans_next_range(_)

\* a faulty variant: the source's end closes a range whether or not any
\* index was counted
Spans_on_event_always_closing(self, n) ==
    IF n.panic THEN [self |-> self, item |-> None, panic |-> TRUE]
    ELSE IF n.item = None
    THEN [self |-> [self EXCEPT !.source = n.self, !.halt = TRUE,
                                !.base_ix = self.next_ix],
          item |-> Some(Range(self.base_ix, self.next_ix)),
          panic |-> FALSE]
    ELSE IF n.item.val.kind = "Data"
    THEN Spans_next_range([self EXCEPT !.source = n.self, !.next_ix = @ + 1])
    ELSE [self |-> [self EXCEPT !.source = n.self, !.base_ix = self.next_ix],
          item |-> Some(Range(self.base_ix, self.next_ix)),
          panic |-> FALSE]

\* lib.rs: Spans::next, one turn of its loop: n is what the source answered
Spans_on_event(self, n) ==
    IF n.panic THEN [self |-> self, item |-> None, panic |-> TRUE]
    ELSE IF n.item = None
    THEN [self |-> [self EXCEPT !.source = n.self, !.halt = TRUE,
                                !.base_ix = IF self.next_ix > self.base_ix
                                            THEN self.next_ix ELSE @],
          item |-> IF self.next_ix > self.base_ix
                   THEN Some(Range(self.base_ix, self.next_ix))
                   ELSE None,
          panic |-> FALSE]
    ELSE IF n.item.val.kind = "Data"
    THEN Spans_next_range([self EXCEPT !.source = n.self, !.next_ix = @ + 1])
    ELSE [self |-> [self EXCEPT !.source = n.self, !.base_ix = self.next_ix],
          item |-> Some(Range(self.base_ix, self.next_ix)),
          panic |-> FALSE]

\* lib.rs: Iterator for the Spans that yields index ranges
Spans_next_range(self) ==
    IF self.halt THEN [self |-> self, item |-> None, panic |-> FALSE]
    ELSE Spans_on_event(self, Delimited_next_threshold(self.source))

\* an iterator polled until it answers None, the items collected; which is
\* one of the materializers or the engine of lib.rs
Materializer_next(which, self) ==
    CASE which = "Splits" -> Splits_next(self)
      [] which = "Distances" -> Distances_next(self)
      [] which = "Spans" -> Spans_next(self)
      [] which = "Ranges" -> Spans_next_range(self)
      [] which = "Rolling" -> Rolling_next_width(self)

RECURSIVE Materializer_collect(_, _, _)

Materializer_collect_item(which, n, found) ==
    IF n.panic THEN [panic |-> TRUE, items |-> found]
    ELSE IF n.item = None THEN [panic |-> FALSE, items |-> found]
    ELSE Materializer_collect(which, n.self, Append(found, n.item.val))

Materializer_collect(which, self, found) ==
    Materializer_collect_item(which, Materializer_next(which, self), found)

PiecesCalls == {[fn |-> "pieces", source |-> s] : s \in Inputs}

\* every materializer over the same source under the same configuration
PiecesCall ==
    /\ call # None
    /\ call.val.fn = "pieces"
    /\ ret = None
    /\ ret' = Some([chunks |-> Materializer_collect("Splits",
                        Delimited_splits(Delimited_start(call.val.source)), <<>>),
                    extents |-> Materializer_collect("Distances",
                        Distances_start(call.val.source), <<>>),
                    spans |-> Materializer_collect("Spans",
                        Spans_start(call.val.source), <<>>),
                    ranges |-> Materializer_collect("Ranges",
                        Delimited_spans(Rolling_delimited(
                            Rolling_with_zeros(hasher, WINDOW_SIZE, call.val.source),
                            THRESHOLD)), <<>>)])
    /\ UNCHANGED <<iterators, batch, sliceOut, chunkOut, call>>


\* starting buffers as wide as the hashers' window
Buffers == [1..WINDOW_SIZE -> 0..MaxByte]

ResumeCalls == {[fn |-> "resume", buf |-> b, source |-> s] : b \in Buffers, s \in Inputs}

\* an engine constructed from a starting buffer runs over a source; an engine
\* started from zeros runs over the bytes of the buffer and then the source
ResumeCall ==
    /\ call # None
    /\ call.val.fn = "resume"
    /\ ret = None
    /\ ret' = Some([with_buf |-> Materializer_collect("Rolling",
                        Rolling_with_buf(hasher, call.val.buf, call.val.source).val, <<>>),
                    with_zeros |-> Materializer_collect("Rolling",
                        Rolling_with_zeros(hasher, WINDOW_SIZE,
                                           call.val.buf \o call.val.source), <<>>)])
    /\ UNCHANGED <<iterators, batch, sliceOut, chunkOut, call>>


\* the calls made
Calls == LevelCalls \cup RollingCalls \cup ChunkingCalls \cup StepCalls \cup SliceCalls \cup BlockCalls \cup {[fn |-> "fmt"]} \cup WithBufCalls \cup PiecesCalls \cup ResumeCalls

CallInit ==
    /\ call \in {Some(c) : c \in Calls}
    /\ ret = None
    /\ batch = None
    /\ sliceOut = None
    /\ chunkOut = None
    /\ overflow_checks \in BOOLEAN
    /\ hasher \in {"Rrs1", "Bozo32"}
    /\ input = <<>>
    /\ THRESHOLD \in CASE Configured(call) -> CallThresholds
                        [] call.val.fn = "fmt" -> FmtThresholds
                        [] OTHER -> {0}
    /\ MIN_SIZE \in CASE Configured(call) -> 0..MaxMinSize
                       [] call.val.fn = "fmt" -> SizeValues
                       [] OTHER -> {0}
    /\ MAX_SIZE \in CASE Configured(call) -> 0..MaxMaxSize
                       [] call.val.fn = "fmt" -> SizeValues
                       [] OTHER -> {0}
    /\ panicked = FALSE
    /\ delimited = Delimited_start(input)
    /\ events = <<>>
    /\ delimitedNones = 0
    /\ splits = IF call.val.fn = "fmt"
                THEN None   \* formatting a Config builds no iterator
                ELSE Delimited_splits(Delimited_start(input))
    /\ chunks = <<>>
    /\ splitsNones = 0
    /\ distances = Distances_start(input)
    /\ extents = <<>>
    /\ distancesNones = 0
    /\ spans = Spans_start(input)
    /\ spanChunks = <<>>
    /\ spansNones = 0

CallNext == LevelCall \/ RollingCall \/ ChunkingCall \/ StepCall \/ SliceCall \/ BlockCall \/ FmtCall \/ WithBufCall \/ PiecesCall \/ ResumeCall

CallSpec == CallInit /\ [][CallNext]_vars

\* ------------------------------------------------- reading the histories
\* the bytes of a sequence of chunks, end to end
RECURSIVE Concat(_)
Concat(cs) == IF cs = <<>> THEN <<>> ELSE Head(cs).chunk \o Concat(Tail(cs))

IsPrefix(p, q) == Len(p) <= Len(q) /\ SubSeq(q, 1, Len(p)) = p

IsBoundary(ev) == ev.kind \in {"Level", "Capped"}

\* the runs of Data events an event sequence is cut into, each with the
\* boundary event that closes it, as [length, boundary]
RECURSIVE RunsFrom(_, _, _)
RunsFrom(evs, i, n) ==
    IF i > Len(evs) THEN <<>>
    ELSE IF evs[i].kind = "Data" THEN RunsFrom(evs, i + 1, n + 1)
    ELSE <<[length |-> n, boundary |-> evs[i]]>> \o RunsFrom(evs, i + 1, 0)

Runs(evs) == RunsFrom(evs, 1, 0)

NonEmpty(run) == run.length > 0

\* the bytes carried by the Data events of an event sequence
DataBytes(evs) ==
    LET data == SelectSeq(evs, LAMBDA ev : ev.kind = "Data")
    IN  [i \in 1..Len(data) |-> data[i].byte]

\* how many Data events come before position i
DataBefore(evs, i) == Cardinality({j \in 1..(i - 1) : evs[j].kind = "Data"})

\* how many bytes the chunks before position i hold, chunk i included
RECURSIVE EndOf(_, _)
EndOf(cs, i) == IF i = 0 THEN 0 ELSE EndOf(cs, i - 1) + Len(cs[i].chunk)

RECURSIVE ExtentEnd(_, _)
ExtentEnd(es, i) == IF i = 0 THEN 0 ELSE ExtentEnd(es, i - 1) + es[i].length

\* the hasher states after the first 1, 2, ... input bytes: process_byte
\* folded from INITIAL_STATE, the byte evicted at step k being the one fed
\* WINDOW_SIZE steps earlier, or zero
RECURSIVE FoldTrail(_)
FoldTrail(trail) ==
    IF Len(trail) = Len(input) THEN trail
    ELSE FoldTrail(Append(trail,
            process_byte(hasher,
                         IF trail = <<>> THEN INITIAL_STATE(hasher) ELSE trail[Len(trail)],
                         IF Len(trail) >= WINDOW_SIZE
                         THEN input[Len(trail) + 1 - WINDOW_SIZE] ELSE 0,
                         input[Len(trail) + 1]).state))

\* the state after the first k bytes, read off such a trail
FoldState(trail, k) == IF k = 0 THEN INITIAL_STATE(hasher) ELSE trail[k]

DelimitedDone == delimitedNones > 0
SplitsDone == splitsNones > 0
DistancesDone == distancesNones > 0
SpansDone == spansNones > 0

\* --------------------------------------------------------------- claims

\* C1: the chunks yielded by Splits over Delimited, concatenated in order, are
\* always a prefix of the input and, once Splits is exhausted, the whole
\* input; and so are the chunks yielded by Spans over Distances.
C1_ConcatReproducesInput ==
    /\ IsPrefix(Concat(chunks), input)
    /\ SplitsDone => Concat(chunks) = input
    /\ IsPrefix(Concat(spanChunks), input)
    /\ SpansDone => Concat(spanChunks) = input

C1_Witness ==
    /\ SpansDone
    /\ Len(chunks) >= 2
    /\ Len(spanChunks) >= 2
    /\ Len(input) = 3

BoundedRuns(rs) ==
    \A i \in DOMAIN rs :
        IsBoundary(rs[i].boundary) =>
            MIN_SIZE <= rs[i].length /\ rs[i].length <= MAX_SIZE

\* C2 as stated: whenever MAX_SIZE >= MIN_SIZE, every run closed by a Level or
\* Capped boundary, of Delimited and of Distances, has MIN_SIZE <= L <= MAX_SIZE.
C2_Original ==
    MAX_SIZE >= MIN_SIZE => BoundedRuns(Runs(events)) /\ BoundedRuns(extents)

\* C2 as amended: the same, for MAX_SIZE >= MIN_SIZE and MAX_SIZE >= 1.
C2_NonFinalChunkBounds ==
    (MAX_SIZE >= MIN_SIZE /\ MAX_SIZE >= 1) =>
        BoundedRuns(Runs(events)) /\ BoundedRuns(extents)

C2_Witness ==
    /\ MAX_SIZE = MIN_SIZE
    /\ MIN_SIZE = 1
    /\ SpansDone
    /\ \E i \in DOMAIN extents : extents[i].boundary.kind = "Level"
    /\ \E i \in DOMAIN extents : extents[i].boundary.kind = "Capped"
    /\ \E i \in DOMAIN events : events[i].kind = "Capped"

FinalRunBounded(rs) ==
    \A i \in DOMAIN rs : rs[i].boundary.kind = "Eof" => rs[i].length <= MAX_SIZE

\* C3 as stated: whenever MAX_SIZE >= MIN_SIZE, the run closed by Eof is no
\* longer than MAX_SIZE.
C3_Original ==
    MAX_SIZE >= MIN_SIZE => FinalRunBounded(Runs(events)) /\ FinalRunBounded(extents)

\* C3 as amended: the same, for MAX_SIZE >= MIN_SIZE and MAX_SIZE >= 1.
C3_FinalChunkBound ==
    (MAX_SIZE >= MIN_SIZE /\ MAX_SIZE >= 1) =>
        FinalRunBounded(Runs(events)) /\ FinalRunBounded(extents)

\* a final chunk shorter than MIN_SIZE
C3_Witness ==
    /\ MAX_SIZE >= MIN_SIZE
    /\ DistancesDone
    /\ \E i \in DOMAIN extents :
          extents[i].boundary.kind = "Eof" /\ extents[i].length < MIN_SIZE
    /\ \E i \in DOMAIN events :
          /\ events[i].kind = "Eof"
          /\ DataBefore(events, i) = Len(input)
          /\ Runs(events)[Len(Runs(events))].length = 1

\* the event grammar as an automaton: state 0 before the first boundary,
\* 1 after it, 2 after Eof, 3 once the word is rejected
GrammarStep(q, ev, eofFromStart) ==
    IF q = 3 \/ q = 2 THEN 3
    ELSE IF ev.kind = "Data" THEN q
    ELSE IF IsBoundary(ev) THEN 1
    ELSE IF q = 1 \/ eofFromStart THEN 2
    ELSE 3

RECURSIVE GrammarRun(_, _, _)
GrammarRun(evs, i, eofFromStart) ==
    IF i = 0 THEN 0 ELSE GrammarStep(GrammarRun(evs, i - 1, eofFromStart), evs[i], eofFromStart)

\* C4 as stated: the events of a Delimited polled to exhaustion form a word of
\* Data* (Boundary|Capped) (Data* (Boundary|Capped))* Data* Eof.
C4_Original == DelimitedDone => GrammarRun(events, Len(events), FALSE) = 2

\* C4 as amended: they form a word of (Data* (Boundary|Capped))* Data* Eof, with
\* exactly one Eof; and the events yielded so far never leave that grammar.
C4_EventGrammar ==
    /\ GrammarRun(events, Len(events), TRUE) # 3
    /\ DelimitedDone => GrammarRun(events, Len(events), TRUE) = 2

C4_Witness ==
    /\ DelimitedDone
    /\ Cardinality({i \in DOMAIN events : IsBoundary(events[i])}) >= 2
    /\ events[Len(events) - 1].kind = "Data"

\* C5: every Level or Capped event comes directly after a Data event.
C5_BoundaryFollowsData ==
    \A i \in DOMAIN events :
        IsBoundary(events[i]) => i > 1 /\ events[i - 1].kind = "Data"

C5_Witness ==
    /\ DelimitedDone
    /\ \E i \in DOMAIN events : events[i].kind = "Level"
    /\ \E i \in DOMAIN events : events[i].kind = "Capped"

EofYielded == \E i \in DOMAIN events : events[i].kind = "Eof"

OneEofLast == \A i \in DOMAIN events : events[i].kind = "Eof" => i = Len(events)

\* C6: polling the detector again and again yields Eof: polling never comes to
\* an end (by exhaustion or by the program aborting) with no Eof yielded; Eof
\* is yielded once, as the last event, whatever is polled after it.
C6_EventuallyEofOnce ==
    /\ OneEofLast
    /\ (DelimitedDone \/ panicked) => EofYielded

Last(seq) == seq[Len(seq)]

PendingBoundary ==
    IF delimited.prepared.val[1] # None
    THEN Level(delimited.prepared.val[1].val, delimited.prepared.val[2])
    ELSE Capped(delimited.prepared.val[2])

Consumed == Len(input) - Len(delimited.input.source)

\* C7: the Data events are the input bytes consumed so far, in order; a byte
\* that stages a boundary has its Data event yielded on that poll, and the
\* boundary is the very next event, before any further Data.
C7_Order ==
    /\ [](DataBytes(events) = SubSeq(input, 1, Consumed))
    /\ [](delimited.prepared # None =>
            events # <<>> /\ Last(events) = Data(input[Consumed]))
    /\ [][delimited.prepared # None /\ ~panicked' =>
            events' = Append(events, PendingBoundary)]_vars

C7_Witness ==
    /\ delimited.prepared # None
    /\ Consumed = 2
    /\ \E i \in DOMAIN events : IsBoundary(events[i])

SameChunks ==
    /\ Len(chunks) = Len(spanChunks)
    /\ \A i \in DOMAIN chunks :
          /\ chunks[i].chunk = spanChunks[i].chunk
          /\ chunks[i].state = spanChunks[i].state

\* C8: Splits over Delimited and Spans over Distances yield the same chunks
\* (bytes and end states); the extents of Distances are the runs of Data that
\* the boundary events of Delimited cut, with the same boundaries.  (An Eof of
\* Delimited with no Data before it closes no run: Distances has no extent
\* for it.)
C8_OwnedEqualsBorrowed ==
    SpansDone => SameChunks /\ extents = SelectSeq(Runs(events), NonEmpty)

\* Level and Capped chunks, and an input that ends on a boundary: there
\* Delimited yields an Eof that closes no run, and Distances no extent
C8_Witness ==
    /\ SpansDone
    /\ Len(chunks) >= 2
    /\ \E i \in DOMAIN extents : extents[i].boundary.kind = "Level"
    /\ \E i \in DOMAIN extents : extents[i].boundary.kind = "Capped"
    /\ Len(Runs(events)) > Len(extents)

\* C9: the state carried by a boundary event, an extent or a chunk is the
\* fold of process_byte over the input up to the end of its run.
C9_StateAtChunkEnd ==
    LET trail == FoldTrail(<<>>)
    IN  /\ \A i \in DOMAIN events :
              events[i].kind # "Data" =>
                  events[i].state = FoldState(trail, DataBefore(events, i))
        /\ \A i \in DOMAIN chunks :
              chunks[i].state = FoldState(trail, EndOf(chunks, i))
        /\ \A i \in DOMAIN extents :
              extents[i].boundary.state = FoldState(trail, ExtentEnd(extents, i))
        /\ \A i \in DOMAIN spanChunks :
              spanChunks[i].state = FoldState(trail, EndOf(spanChunks, i))

\* a chunk with more input after it, and a chunk that ends after the ring
\* buffer has wrapped and evicted a non-zero byte
C9_Witness ==
    /\ SpansDone
    /\ \E i \in DOMAIN chunks : EndOf(chunks, i) < Len(input)
    /\ \E i \in DOMAIN chunks :
          /\ EndOf(chunks, i) > WINDOW_SIZE
          /\ input[EndOf(chunks, i) - WINDOW_SIZE] # 0
    /\ \E i \in DOMAIN events : IsBoundary(events[i]) /\ DataBefore(events, i) > WINDOW_SIZE

\* process_byte applied to the first k pairs of two blocks, one pair at a
\* time, up to the first step that panics
RECURSIVE FoldPairs(_, _, _, _, _)
FoldPairs(h, state, old_data, new_data, k) ==
    IF k = 0 THEN [sum |-> <<0, 0>>, state |-> state, overflow |-> FALSE]
    ELSE LET before == FoldPairs(h, state, old_data, new_data, k - 1)
             step == Rrs_process_byte(h, before.state, old_data[k], new_data[k])
         IN  IF before.overflow /\ overflow_checks THEN before
             ELSE [step EXCEPT !.overflow = @ \/ before.overflow]

BatchFold ==
    Returned(FoldPairs(batch.hasher, batch.state, batch.old_data, batch.new_data, BlockLen))

\* C10: a batched update returns what folding process_byte over the pairs
\* returns: the provided process_slice and the 16-byte process_chunk128 alike.
C10_BatchedEqualsFold ==
    /\ sliceOut # None => sliceOut.val = BatchFold
    /\ chunkOut # None => chunkOut.val = BatchFold

\* the part of C10 that holds: the provided process_slice
C10_ProcessSliceEqualsFold == sliceOut # None => sliceOut.val = BatchFold

Called(fn) == call # None /\ call.val.fn = fn /\ ret # None

\* bit k of an integer checksum, bit 0 the least significant
Bit(c, k) == (c.limbs[Len(c.limbs) - (k \div 16)] \div (2 ^ (k % 16))) % 2

\* the number of trailing zero bits, counted bit by bit
TrailingZeroBits(c) ==
    Cardinality({k \in 1..c.bits : \A j \in 0..(k - 1) : Bit(c, j) = 0})

\* C11 as stated: level of an integer checksum is its number of trailing zero
\* bits (the bit width for 0); level(false) = 0 and level(true) = 1.
C11_Original ==
    Called("level") =>
        ret.val = IF call.val.checksum.type = "bool"
                  THEN (IF call.val.checksum.val THEN 1 ELSE 0)
                  ELSE TrailingZeroBits(call.val.checksum)

\* C11 as amended: the same for integers; level(false) = 1 and level(true) = 0
\* (a boolean counts as a one-bit integer).
C11_Level ==
    Called("level") =>
        ret.val = IF call.val.checksum.type = "bool"
                  THEN (IF call.val.checksum.val THEN 0 ELSE 1)
                  ELSE TrailingZeroBits(call.val.checksum)

C11_Witness ==
    /\ Called("level")
    /\ call.val.checksum = BoolChecksum(FALSE)
    /\ ret = Some(1)

\* the W bytes of an input up to and including position n
Window(data, n) == SubSeq(data, n - WINDOW_SIZE + 1, n)

SameChecksumAt(i, j) ==
    Window(call.val.a, i) = Window(call.val.b, j) => ret.val.a.sums[i] = ret.val.b.sums[j]

\* C12: at a position n >= W the checksum is a function of the last W bytes:
\* two inputs with the same W bytes up to a position of each have the same
\* checksum there, whatever came before and however much of it.
C12_ChecksumLocality ==
    (Called("rolling") /\ ~ret.val.a.panic /\ ~ret.val.b.panic) =>
        \A i \in WINDOW_SIZE..Len(call.val.a), j \in WINDOW_SIZE..Len(call.val.b) :
            SameChecksumAt(i, j)

\* the part of C12 that holds: Bozo32 in a wrapping build
C12_Bozo32Locality ==
    (Called("rolling") /\ hasher = "Bozo32" /\ ~ret.val.a.panic /\ ~ret.val.b.panic) =>
        \A i \in WINDOW_SIZE..Len(call.val.a), j \in WINDOW_SIZE..Len(call.val.b) :
            SameChecksumAt(i, j)

\* where chunk i of a sequence of chunks starts and ends in the input
StartOf(cs, i) == EndOf(cs, i - 1) + 1

\* chunk i of the input a lies outside the neighbourhood of the deleted
\* position: it ends more than a window before it, or the last byte before
\* the chunk already has a window to the right of it
OutsideA(i) ==
    \/ EndOf(ret.val.a.chunks, i) + WINDOW_SIZE < call.val.at
    \/ StartOf(ret.val.a.chunks, i) - WINDOW_SIZE > call.val.at

\* the same for chunk k of b, where the deleted byte stood before position at
OutsideB(k) ==
    \/ EndOf(ret.val.b.chunks, k) + WINDOW_SIZE < call.val.at
    \/ StartOf(ret.val.b.chunks, k) - WINDOW_SIZE >= call.val.at

\* chunk i of a and chunk k of b are the same bytes at corresponding places
SameChunk(i, k) ==
    /\ ret.val.a.chunks[i].chunk = ret.val.b.chunks[k].chunk
    /\ StartOf(ret.val.b.chunks, k) =
          IF StartOf(ret.val.a.chunks, i) > call.val.at
          THEN StartOf(ret.val.a.chunks, i) - 1
          ELSE StartOf(ret.val.a.chunks, i)

\* C13: when b is a with one byte deleted, every chunk of a outside the
\* neighbourhood of the edit is a chunk of b, and conversely.
C13_ChunkLocality ==
    (Called("chunking") /\ ~ret.val.a.panic /\ ~ret.val.b.panic) =>
        /\ \A i \in DOMAIN ret.val.a.chunks :
              OutsideA(i) => \E k \in DOMAIN ret.val.b.chunks : SameChunk(i, k)
        /\ \A k \in DOMAIN ret.val.b.chunks :
              OutsideB(k) => \E i \in DOMAIN ret.val.a.chunks : SameChunk(i, k)

\* the part of C13 that holds: the chunks that end before the edit
C13_ChunksBeforeEdit ==
    (Called("chunking") /\ ~ret.val.a.panic /\ ~ret.val.b.panic) =>
        \A i \in DOMAIN ret.val.a.chunks :
            EndOf(ret.val.a.chunks, i) < call.val.at =>
                \E k \in DOMAIN ret.val.b.chunks : SameChunk(i, k)


\* the chunking call ran to the end under a configuration whose size limits
\* never act: every byte may end a chunk and no chunk is capped
Unbounded == MIN_SIZE <= 1 /\ MAX_SIZE = 0

\* C13 read for the configurations without size limits: it fails for Rrs1
C13_UnboundedLocality ==
    Unbounded => C13_ChunkLocality

\* and holds for Bozo32, whose checksum is a function of the window (C12)
C13_Bozo32UnboundedLocality ==
    (Unbounded /\ hasher = "Bozo32") => C13_ChunkLocality


\* C14: no hash step faults on arithmetic: from every state reached from
\* INITIAL_STATE and for every pair of bytes, process_byte returns a value.
C14_NoArithmeticFault ==
    Called("process_byte") => ~ret.val.panic

\* C14 for each hasher on its own: both fault
C14_Rrs1NoFault ==
    (Called("process_byte") /\ hasher = "Rrs1") => ~ret.val.panic

C14_Bozo32NoFault ==
    (Called("process_byte") /\ hasher = "Bozo32") => ~ret.val.panic

\* C14 for the states the polled iterators reach: no poll panics
C14_NoPollFaults == ~panicked


\* the number a u32 of the model stands for (below 2^31)
Num(v) == v[1] * Half + v[2]

\* the residue of n in [0, m), for n of either sign
Residue(n, m) == ((n % m) + m) % m

\* the state and the checksum the update rules of the RRS family name
Rrs_a_rule(a, old_byte, new_byte) == Residue(a - old_byte + new_byte, MODULUS)

Rrs_b_rule(b, old_byte, a_new) ==
    Residue(b - WINDOW_SIZE * (old_byte + OFFSET) + a_new, MODULUS)

FollowsRules(r) ==
    LET a_new == Rrs_a_rule(Num(r.engine.state[1]), r.old_byte, r.new_byte)
        b_new == Rrs_b_rule(Num(r.engine.state[2]), r.old_byte, a_new)
    IN  /\ r.state = <<(<<0, a_new>>), (<<0, b_new>>)>>
        /\ r.sum = <<a_new, b_new>>

\* C15: a step of Rrs1 returns the residues of the update rules, b' in the low
\* half of the checksum and a' in the high half.
C15_RrsResidues ==
    (Called("process_byte") /\ hasher = "Rrs1" /\ ~ret.val.panic) =>
        FollowsRules(ret.val)

\* C15 where the evicted byte is the one the engine holds: it fails as well
C15_RrsResiduesInEngine ==
    (/\ Called("process_byte") /\ hasher = "Rrs1" /\ ~ret.val.panic
     /\ ret.val.old_byte = ret.val.engine.ring[ret.val.engine.begin + 1]) =>
        FollowsRules(ret.val)

RECURSIVE SumOf(_)
SumOf(s) == IF s = <<>> THEN 0 ELSE Head(s) + SumOf(Tail(s))

\* the parts of C15 that hold: after any feeds a is the sum of the bytes in
\* the window, and the checksum holds a in its high half and b in its low half
C15_WindowSum ==
    (Called("process_byte") /\ hasher = "Rrs1" /\ ~ret.val.panic) =>
        /\ Num(ret.val.engine.state[1]) = SumOf(ret.val.engine.ring) % MODULUS
        /\ ret.val.sum = <<ret.val.state[1][2], ret.val.state[2][2]>>


\* the window of an engine, oldest byte first; positions never written hold 0
WindowOf(engine) ==
    [i \in 1..WINDOW_SIZE |-> engine.ring[((engine.begin + i - 1) % WINDOW_SIZE) + 1]]

\* sum of window[i] * P^(W-1-i) mod 2^32, by Horner's rule
RECURSIVE PolynomialSum(_, _)
PolynomialSum(window, acc) ==
    IF window = <<>> THEN acc
    ELSE PolynomialSum(Tail(window),
                       Add32(Mul32(Val(acc), Lit(PRIME)), Lit(Head(window))).val)

\* the byte the engine evicts on its next feed
Evicted(engine) == engine.ring[engine.begin + 1]

\* P^W mod 2^32, as the polynomial sum over a one followed by W zeros
PowerOfPrime == PolynomialSum(<<1>> \o [i \in 1..WINDOW_SIZE |-> 0], <<0, 0>>)

\* C16: for Bozo32 a step that returns returns the new state as the checksum,
\* with state' + old * P^W = state * P + new mod 2^32; driven by the engine
\* from INITIAL_STATE the state is the polynomial sum over the window, before
\* the step and, when the step evicts the oldest byte, after it.
C16_Bozo32PolynomialSum ==
    (Called("process_byte") /\ hasher = "Bozo32" /\ ~ret.val.panic) =>
        /\ ret.val.sum = ret.val.state
        /\ Add32(Val(ret.val.state),
                 Mul32(Lit(ret.val.old_byte), Val(PowerOfPrime))).val =
              Add32(Mul32(Val(ret.val.engine.state), Lit(PRIME)),
                    Lit(ret.val.new_byte)).val
        /\ ret.val.engine.state = PolynomialSum(WindowOf(ret.val.engine), <<0, 0>>)
        /\ ret.val.old_byte = Evicted(ret.val.engine) =>
              ret.val.state =
                  PolynomialSum(Tail(WindowOf(ret.val.engine)) \o <<ret.val.new_byte>>,
                                <<0, 0>>)

\* a step of Bozo32 that wrapped around, made by an engine that has already
\* evicted a byte that was not zero
C16_Witness ==
    /\ Called("process_byte") /\ hasher = "Bozo32" /\ ~ret.val.panic
    /\ ret.val.overflow
    /\ Len(call.val.source) > WINDOW_SIZE
    /\ call.val.source[1] # 0
    /\ ret.val.old_byte = Evicted(ret.val.engine)
    /\ ret.val.old_byte # 0


\* nothing has been yielded by any of the iterators
NothingYielded ==
    events = <<>> /\ chunks = <<>> /\ extents = <<>> /\ spanChunks = <<>>

\* C17: under a configuration with MAX_SIZE < MIN_SIZE the detector is
\* rejected at construction or first use: it never emits an event or a chunk.
C17_BadConfigurationRejected ==
    MAX_SIZE < MIN_SIZE => NothingYielded

\* C17 for the configurations whose cap acts (0 < MAX_SIZE < MIN_SIZE): the
\* detector runs and caps chunks below MIN_SIZE
C17_ActingCapRejected ==
    (0 < MAX_SIZE /\ MAX_SIZE < MIN_SIZE) =>
        \A i \in DOMAIN events : events[i].kind # "Capped"



\* C18: a batched update called with blocks of mismatched lengths panics
\* instead of returning: process_slice when the two slices differ in length,
\* process_block when either block is not BLOCK_SIZE bytes long.
C18_MismatchFailsLoudly ==
    /\ (Called("process_slice") /\ Len(call.val.old_data) # Len(call.val.new_data)) =>
          ret.val.panic
    /\ (/\ Called("process_block")
        /\ (Len(call.val.old_data) # BLOCK_SIZE \/ Len(call.val.new_data) # BLOCK_SIZE)) =>
          ret.val.panic

\* C18 for process_block alone: a new block of the wrong length is accepted
C18_NewBlockRejected ==
    (Called("process_block") /\ Len(call.val.new_data) # BLOCK_SIZE) => ret.val.panic

\* the part of C18 that holds: an old block of the wrong length is rejected
C18_OldBlockRejected ==
    (Called("process_block") /\ Len(call.val.old_data) # BLOCK_SIZE) => ret.val.panic


\* the number a text of decimal digits stands for, -1 if it is not one
DigitValue(c) ==
    IF \E d \in 0..9 : Digit(d) = c THEN CHOOSE d \in 0..9 : Digit(d) = c ELSE -1

RECURSIVE NumberOf(_)
NumberOf(text) ==
    IF text = <<>> THEN -1
    ELSE IF DigitValue(text[Len(text)]) < 0 THEN -1
    ELSE IF Len(text) = 1 THEN DigitValue(text[1])
    ELSE IF NumberOf(SubSeq(text, 1, Len(text) - 1)) <= 0 THEN -1
    ELSE 10 * NumberOf(SubSeq(text, 1, Len(text) - 1)) + DigitValue(text[Len(text)])

\* the units in the order they are tried
Units ==
    << [suffix |-> <<"G", "i">>, factor |-> 1073741824],
       [suffix |-> <<"M", "i">>, factor |-> 1048576],
       [suffix |-> <<"K", "i">>, factor |-> 1024],
       [suffix |-> <<>>, factor |-> 1] >>

\* text renders the size z: the suffix of the first unit that z is a multiple
\* of, after the decimal number of units in z
Renders(z, text) ==
    \E k \in DOMAIN Units :
        /\ \A j \in 1..(k - 1) : z % Units[j].factor # 0
        /\ z % Units[k].factor = 0
        /\ Len(text) > Len(Units[k].suffix)
        /\ SubSeq(text, Len(text) - Len(Units[k].suffix) + 1, Len(text)) = Units[k].suffix
        /\ NumberOf(SubSeq(text, 1, Len(text) - Len(Units[k].suffix))) =
              z \div Units[k].factor

\* the parts of a text between underscores
RECURSIVE SplitAt(_, _)
SplitAt(text, part) ==
    IF text = <<>> THEN <<part>>
    ELSE IF Head(text) = "_" THEN <<part>> \o SplitAt(Tail(text), <<>>)
    ELSE SplitAt(Tail(text), Append(part, Head(text)))

\* C19: a size renders with the first of Gi, Mi, Ki it is a multiple of, else
\* as plain decimal, and a configuration formats as
\* HashSplit_<THRESHOLD>_<name>_<MIN_SIZE>_<MAX_SIZE>, as in the examples.
C19_Display ==
    Called("fmt") =>
        /\ Renders(MIN_SIZE, ret.val.min_size)
        /\ Renders(MAX_SIZE, ret.val.max_size)
        /\ LET parts == SplitAt(ret.val.config, <<>>)
           IN  /\ Len(parts) = 5
               /\ parts[1] = <<"H", "a", "s", "h", "S", "p", "l", "i", "t">>
               /\ NumberOf(parts[2]) = THRESHOLD
               /\ parts[3] = IF hasher = "Rrs1" THEN <<"R", "R", "S", "1">>
                             ELSE <<"B", "o", "z", "o", "3", "2">>
               /\ parts[4] = ret.val.min_size
               /\ parts[5] = ret.val.max_size
        /\ MIN_SIZE = 65536 => ret.val.min_size = <<"6", "4", "K", "i">>
        /\ MIN_SIZE = 2097152 => ret.val.min_size = <<"2", "M", "i">>
        /\ MIN_SIZE = 1073741824 => ret.val.min_size = <<"1", "G", "i">>
        /\ MIN_SIZE = 13 => ret.val.min_size = <<"1", "3">>
        /\ (THRESHOLD = 13 /\ hasher = "Rrs1" /\ MIN_SIZE = 65536 /\ MAX_SIZE = 2097152) =>
              ret.val.config =
                  <<"H", "a", "s", "h", "S", "p", "l", "i", "t", "_", "1", "3", "_",
                    "R", "R", "S", "1", "_", "6", "4", "K", "i", "_", "2", "M", "i">>

\* the configuration of the crate's test has been formatted
C19_Witness ==
    /\ Called("fmt")
    /\ THRESHOLD = 13 /\ hasher = "Rrs1" /\ MIN_SIZE = 65536 /\ MAX_SIZE = 2097152


\* C20: Rolling::with_buf and default_with_buf return None exactly when the
\* buffer is empty, and otherwise an engine whose width is the length of the
\* buffer and whose cursor is 0.
C20_WithBuf ==
    (Called("with_buf") \/ Called("default_with_buf")) =>
        /\ ret.val = None <=> call.val.buf = <<>>
        /\ ret.val # None =>
              /\ ret.val.val.width = Len(call.val.buf)
              /\ ret.val.val.begin = 0
              /\ ret.val.val.ring = call.val.buf

\* an engine was asked for over an empty buffer, and None came back
C20_Witness ==
    /\ Called("default_with_buf")
    /\ call.val.buf = <<>>
    /\ ret.val = None

\* C21: after k feeds to a zero-started engine the cursor is k mod W, the
\* ring read from the cursor holds the last min(W, k) bytes fed behind
\* W - min(W, k) zeros, the slot at the cursor holds the byte fed W steps
\* earlier (zero if k < W), and one checksum was produced per byte.
C21_RingAndCursor ==
    (Called("rolling") /\ ~ret.val.a.panic) =>
        LET k == Len(call.val.a)
            fed == call.val.a
            engine == ret.val.a.self
        IN  /\ engine.begin = k % WINDOW_SIZE
            /\ WindowOf(engine) =
                  [i \in 1..WINDOW_SIZE |->
                      IF k - WINDOW_SIZE + i >= 1 THEN fed[k - WINDOW_SIZE + i] ELSE 0]
            /\ Cardinality({s \in 1..WINDOW_SIZE : engine.ring[s] # 0}) <=
                  (IF k < WINDOW_SIZE THEN k ELSE WINDOW_SIZE)
            /\ engine.ring[engine.begin + 1] =
                  IF k < WINDOW_SIZE THEN 0 ELSE fed[k - WINDOW_SIZE + 1]
            /\ Len(ret.val.a.sums) = k

\* an engine has been fed more than a window of bytes, none of them zero
C21_Witness ==
    /\ Called("rolling") /\ ~ret.val.a.panic
    /\ Len(call.val.a) > WINDOW_SIZE
    /\ \A i \in DOMAIN call.val.a : call.val.a[i] # 0
    /\ ret.val.a.self.begin # 0

\* C22: a poll of the detector that finds a boundary pending yields it and
\* clears the slot, and changes nothing else: source, hasher state, ring,
\* cursor and run counter stay as they were; and no poll takes more than one
\* byte from the source.
C22_PendingPollFrame ==
    /\ [][(delimited.prepared # None /\ delimitedNones < MaxExtraPolls) =>
            /\ events' = Append(events, PendingBoundary)
            /\ delimited'.prepared = None
            /\ delimited'.input = delimited.input
            /\ delimited'.counter = delimited.counter
            /\ delimited'.halt = delimited.halt
            /\ delimitedNones' = delimitedNones]_vars
    /\ [][Len(delimited.input.source) - Len(delimited'.input.source) \in {0, 1}]_vars

\* a pending boundary has just been yielded with bytes left in the source
C22_Witness ==
    /\ events # <<>>
    /\ IsBoundary(Last(events))
    /\ delimited.prepared = None
    /\ delimited.input.source # <<>>
    /\ delimited.input.begin # 0

\* the Data events yielded since the last boundary staged: none while a
\* boundary is pending, else the Data events after the last boundary yielded
DataSinceStaged ==
    IF delimited.prepared # None THEN 0
    ELSE Cardinality({i \in DOMAIN events :
            /\ events[i].kind = "Data"
            /\ \A j \in (i + 1)..Len(events) : ~IsBoundary(events[j])})

\* C23: the run counter is reset on the poll that stages a boundary: a
\* pending boundary implies a counter of 0, and between polls the counter is
\* the number of Data events yielded since the last boundary was staged.
C23_CounterReset ==
    /\ delimited.prepared # None => delimited.counter = 0
    /\ delimited.counter = DataSinceStaged

\* a Capped boundary is pending, staged by the Data event just yielded, in a
\* stream that has had a Level boundary before
C23_Witness ==
    /\ delimited.prepared # None
    /\ delimited.prepared.val[1] = None
    /\ Len(events) >= 2
    /\ events[Len(events) - 1].kind = "Data"
    /\ \E i \in DOMAIN events : events[i].kind = "Level"

\* the checksum that came with a hasher state: for Rrs1 a in the high half
\* and b in the low half, for Bozo32 the state itself
ChecksumOf(state) ==
    IF hasher = "Rrs1" THEN <<state[1][2], state[2][2]>> ELSE state

\* the level of the checksum of input byte k, read off a trail of states
LevelAt(trail, k) == level(ChecksumOf(trail[k]))

\* how many Data events stand directly before position i
RunBefore(evs, i) ==
    Cardinality({j \in 1..(i - 1) : \A m \in j..(i - 1) : evs[m].kind = "Data"})

\* C24: with MAX_SIZE >= MIN_SIZE, a Level boundary directly follows a byte
\* whose checksum has the level it carries, at least THRESHOLD; a Capped
\* boundary directly follows a byte whose level is below THRESHOLD and closes
\* a chunk of exactly MAX_SIZE bytes; a byte that reaches the threshold as it
\* brings the run to MAX_SIZE gives Level.  Events and extents alike.
C24_BoundaryKinds ==
    MAX_SIZE >= MIN_SIZE =>
        LET trail == FoldTrail(<<>>)
        IN  /\ \A i \in DOMAIN events :
                  LET k == DataBefore(events, i)
                  IN  /\ events[i].kind = "Level" =>
                            /\ RunBefore(events, i) >= 1
                            /\ events[i].level = LevelAt(trail, k)
                            /\ events[i].level >= THRESHOLD
                      /\ events[i].kind = "Capped" =>
                            /\ RunBefore(events, i) = MAX_SIZE
                            /\ MAX_SIZE >= 1
                            /\ LevelAt(trail, k) < THRESHOLD
                      /\ (/\ events[i].kind = "Data"
                          /\ i < Len(events)
                          /\ RunBefore(events, i + 1) = MAX_SIZE
                          /\ LevelAt(trail, k + 1) >= THRESHOLD) =>
                            events[i + 1].kind = "Level"
            /\ \A i \in DOMAIN extents :
                  LET k == ExtentEnd(extents, i)
                  IN  /\ extents[i].boundary.kind = "Level" =>
                            /\ extents[i].boundary.level = LevelAt(trail, k)
                            /\ extents[i].boundary.level >= THRESHOLD
                      /\ extents[i].boundary.kind = "Capped" =>
                            /\ extents[i].length = MAX_SIZE
                            /\ LevelAt(trail, k) < THRESHOLD

\* both kinds have been yielded, a Level among them for a byte that brought
\* its run to MAX_SIZE
C24_Witness ==
    /\ MAX_SIZE >= MIN_SIZE
    /\ DistancesDone
    /\ \E i \in DOMAIN events : events[i].kind = "Capped"
    /\ \E i \in DOMAIN events :
          events[i].kind = "Level" /\ RunBefore(events, i) = MAX_SIZE
    /\ \E i \in DOMAIN extents : extents[i].boundary.kind = "Capped"

\* no byte of the input has a checksum that reaches the threshold
NoLevelReached(trail) == \A k \in 1..Len(input) : LevelAt(trail, k) < THRESHOLD

\* the numbers of bytes after which a Capped event was yielded
CappedAfter ==
    {DataBefore(events, i) : i \in {j \in DOMAIN events : events[j].kind = "Capped"}}

\* C25: when no checksum of the input reaches the threshold, every boundary
\* before Eof is Capped; for MAX_SIZE >= 1 the Capped boundaries come after
\* every MAX_SIZE-th byte and only there, floor(n / MAX_SIZE) of them for an
\* input of n bytes.
C25_OnlyCapped ==
    NoLevelReached(FoldTrail(<<>>)) =>
        /\ \A i \in DOMAIN events : events[i].kind # "Level"
        /\ MAX_SIZE >= 1 =>
              /\ \A k \in CappedAfter : k >= 1 /\ k % MAX_SIZE = 0
              /\ \A k \in 1..Consumed :
                    (k % MAX_SIZE = 0 /\ (k < Consumed \/ delimited.prepared = None))
                        => k \in CappedAfter
              /\ DelimitedDone =>
                    Cardinality({i \in DOMAIN events : events[i].kind = "Capped"}) =
                        Len(input) \div MAX_SIZE

\* an input of three bytes, none reaching the threshold, was cut by the cap
\* more than once
C25_Witness ==
    /\ DelimitedDone
    /\ THRESHOLD >= 1
    /\ NoLevelReached(FoldTrail(<<>>))
    /\ Len(input) >= 3
    /\ Cardinality({i \in DOMAIN events : events[i].kind = "Capped"}) >= 2


\* the pieces a materializer yielded, as their lengths
PieceLengths(which) ==
    LET got == ret.val[which].items
    IN  [i \in DOMAIN got |->
            CASE which = "extents" -> got[i].length
              [] which = "ranges" -> got[i].end - got[i].start
              [] OTHER -> Len(got[i].chunk)]

Materializers == {"chunks", "extents", "spans", "ranges"}

\* C26: no materializer yields an empty piece: the chunks of Splits and of
\* the borrowing Spans, the extents of Distances and the index ranges of the
\* range-yielding Spans all have length >= 1, also for an empty input and
\* for an input that ends on a Level or Capped boundary.
C26_NoEmptyPiece ==
    Called("pieces") =>
        \A which \in Materializers :
            /\ \A i \in DOMAIN PieceLengths(which) : PieceLengths(which)[i] >= 1
            /\ call.val.source = <<>> => ret.val[which].items = <<>>

\* an input that ends exactly on a Capped boundary was materialized by all
\* four with no fault, its last extent closed by the cap and not by Eof
C26_Witness ==
    /\ Called("pieces")
    /\ \A which \in Materializers : ~ret.val[which].panic /\ ret.val[which].items # <<>>
    /\ MAX_SIZE >= 1
    /\ Len(call.val.source) >= 2
    /\ Last(ret.val.extents.items).boundary.kind = "Capped"
    /\ Len(ret.val.ranges.items) >= 2


\* the items of an engine that came after the first n
ItemsAfter(items, n) == SubSeq(items, n + 1, Len(items))

\* both engines of a resume call ran to the end of their sources
Resumed == Called("resume") /\ ~ret.val.with_buf.panic /\ ~ret.val.with_zeros.panic

\* C27: an engine constructed from a starting buffer and a zero-started
\* engine of the same width that was first fed the bytes of the buffer yield
\* the same checksum for every byte that follows.
C27_BufferConsistent ==
    Resumed =>
        ret.val.with_buf.items = ItemsAfter(ret.val.with_zeros.items, Len(call.val.buf))

\* C27, the part that holds: the two engines agree when the rolling state of
\* the zero-started engine after the buffer is the initial state again, which
\* for Bozo32 is the buffer of zeros.
C27_ZeroBufferConsistent ==
    (Resumed /\ hasher = "Bozo32" /\ \A i \in DOMAIN call.val.buf : call.val.buf[i] = 0) =>
        ret.val.with_buf.items = ItemsAfter(ret.val.with_zeros.items, Len(call.val.buf))

====
